---------------------------- MODULE Spec2Model ----------------------------
(***************************************************************************)
(* Model of src/TT.py, the market sentiment dashboard script.              *)
(*                                                                         *)
(* The script is executed top to bottom on every page (re)run.  Its state  *)
(* is the sidebar configuration (STOCKS, START_DATE, END_DATE), the SQLite *)
(* store stock_analysis.db, which outlives a run, and the data frames the  *)
(* run builds.  The providers (yfinance, NewsAPI) are the environment:     *)
(* what they return is chosen by \E in the action that calls them.         *)
(*                                                                         *)
(* Numbers: a sentiment is an integer number of hundredths (0.1 is 10);    *)
(* a date is a day number; a normalized value is the fraction num/den, or  *)
(* NaN where pandas computes 0.0/0.0.                                      *)
(*                                                                         *)
(* Three specifications share the variables:                               *)
(*   Spec      the page run (lines 96-194); lines 197-204 define job and   *)
(*             register it, and since line 213 is a comment nothing calls  *)
(*             schedule.run_pending: job never runs                        *)
(*   SpecNorm  the comparative section (lines 70-77, 179-194) on index     *)
(*             downloads and a sentiment query result drawn from bounded   *)
(*             sets                                                        *)
(*   SpecCat   categorize (lines 153-159) on every score in [-1,1]         *)
(***************************************************************************)
EXTENDS Integers, Sequences, FiniteSets, TLC

VARIABLES
    pc,             \* position of the script
    START_DATE,     \* line 22
    END_DATE,       \* line 23
    STOCKS,         \* line 21, the selection in order
    dated,          \* the store's stock_news table was created with a Date column
    db,             \* the store: table name -> sequence of rows (existing tables only)
    news_text,      \* the Sentiment column of the stored stock_news table is TEXT
    i,              \* index of the ticker the ingestion loop is at
    all_data,       \* line 96
    all_sentiment,  \* line 96
    stock_prices,   \* line 108
    stock_news,     \* line 109
    avg_sentiment,  \* line 140: ticker -> mean, present tickers only
    calls,          \* provider calls made since the run began
    written,        \* rows written to the store since the run began
    ui,             \* what the comparative section showed
    raw_index,      \* SpecNorm: what yf.download returns for each index symbol
    index_df,       \* line 179
    sentiment_series, \* line 180
    combined_df,    \* line 184
    normalized_df,  \* line 185
    score,          \* SpecCat: the argument of categorize
    category        \* SpecCat: its result

vars == <<pc, START_DATE, END_DATE, STOCKS, dated, db, news_text, i, all_data, all_sentiment,
          stock_prices, stock_news, avg_sentiment, calls, written, ui,
          raw_index, index_df, sentiment_series, combined_df, normalized_df,
          score, category>>

pipeVars == <<START_DATE, END_DATE, STOCKS, dated, db, news_text, i, all_data, all_sentiment,
              stock_prices, stock_news, avg_sentiment, calls, written>>
normVars == <<raw_index, index_df, sentiment_series, combined_df, normalized_df>>
catVars  == <<score, category>>

-----------------------------------------------------------------------------
(* Bounds *)

MaxRows == 2        \* rows the store can hold, both tables together
MaxDate == 2        \* days the sidebar can choose from
MaxArticles == 1    \* articles NewsAPI has for a query
MaxNormDate == 2    \* days an index download or the sentiment query can cover
MaxClose == 2       \* closing values an index takes, 1..MaxClose

(* Program constants *)

PageSize == 5       \* page_size=5
Threshold == 10     \* 0.1, in hundredths
MaxScore == 100     \* TextBlob polarity lies in [-1,1]

\* Two of the five tickers the multiselect offers.
TickerOptions == <<"AAPL", "MSFT">>

Tickers == {TickerOptions[k] : k \in DOMAIN TickerOptions}
DateSet == 1..MaxDate
\* The OHLCV columns are carried through unchanged; one close stands for them.
Closes == {101}
Headlines == {"h1", "h2"}

Min2(a, b) == IF a <= b THEN a ELSE b

Range(s) == {s[k] : k \in DOMAIN s}

\* The selections the multiselect can return: no ticker twice.
Selections ==
    {s \in UNION {[1..n -> Tickers] : n \in 0..Len(TickerOptions)} :
        \A a, b \in DOMAIN s : a /= b => s[a] /= s[b]}

-----------------------------------------------------------------------------
(* The providers *)

\* The k-th smallest element of a set of day numbers, k in 1..Cardinality(D).
RECURSIVE NthDate(_, _)
NthDate(D, k) ==
    LET m == CHOOSE d \in D : \A e \in D : d <= e
    IN  IF k = 1 THEN m ELSE NthDate(D \ {m}, k - 1)

\* yf.download(ticker, start, end): daily bars by ascending date for some of
\* the days start <= d < end (end is exclusive); an empty frame when start >= end.
PriceHistories(start, end) ==
    LET days == {d \in DateSet : start <= d /\ d < end}
    IN  UNION {
          {[k \in 1..Cardinality(D) |->
               [Date |-> NthDate(D, k), Close |-> c[NthDate(D, k)]]] :
             c \in [D -> Closes]} :
          D \in SUBSET days}

\* TextBlob(h).sentiment.polarity, in hundredths.
Polarity(h) ==
    CASE h = "h1" -> 20
      [] h = "h2" -> -20

\* newsapi.get_everything(..., page_size=5)['articles']: the titles, by relevancy.
ArticleLists ==
    UNION {[1..n -> Headlines] : n \in 0..Min2(PageSize, MaxArticles)}

\* What the call of lines 56-61 can do: return a list of articles, or raise.
NewsOutcomes ==
    {[failed |-> FALSE, articles |-> a] : a \in ArticleLists}
        \cup {[failed |-> TRUE, articles |-> << >>]}

-----------------------------------------------------------------------------
(* The functions of the script *)

\* fetch_stock_data: the provider's bars, each tagged with the ticker.
fetch_stock_data(ticker, data) ==
    [k \in DOMAIN data |->
        [Date |-> data[k].Date, Close |-> data[k].Close, Ticker |-> ticker]]

\* to_sql(if_exists='replace'): the table holds the frame alone.
store_replace(store, df, table_name) ==
    IF table_name \in DOMAIN store
    THEN [store EXCEPT ![table_name] = df]
    ELSE store @@ (table_name :> df)

\* store_to_db: to_sql(if_exists='append') creates the table when it is
\* missing and appends the frame's rows.
store_to_db(store, df, table_name) ==
    IF table_name \in DOMAIN store
    THEN [store EXCEPT ![table_name] = @ \o df]
    ELSE store @@ (table_name :> df)

\* fetch_real_news: one row per article; the empty frame when the call fails.
fetch_real_news(ticker, articles, failed) ==
    IF failed
    THEN << >>
    ELSE [k \in DOMAIN articles |->
            [Ticker |-> ticker, Headline |-> articles[k],
             Sentiment |-> Polarity(articles[k])]]

RECURSIVE SumSentiment(_)
SumSentiment(rows) ==
    IF rows = << >> THEN 0
    ELSE Head(rows).Sentiment + SumSentiment(Tail(rows))

RowsOf(rows, ticker) == SelectSeq(rows, LAMBDA r : r.Ticker = ticker)

\* Zero-filled groups: every selected ticker is a key, with rows or without.
GroupKeysZeroFilled(rows) == {rows[k].Ticker : k \in DOMAIN rows} \cup Range(STOCKS)

\* The groups of stock_news.groupby("Ticker"): the tickers some row carries.
GroupKeys(rows) == {rows[k].Ticker : k \in DOMAIN rows}

\* stock_news.groupby("Ticker")["Sentiment"].mean(): the mean of a group is
\* the fraction num/den.
GroupMean(rows) ==
    [t \in GroupKeys(rows) |->
        [num |-> SumSentiment(RowsOf(rows, t)), den |-> Len(RowsOf(rows, t))]]

\* The rows the query of fetch_sentiment_series_from_db selects: those whose
\* Date is not NULL and lies BETWEEN start_date AND end_date.  A row this
\* script stored has no Date.
DatedRows(rows, start_date, end_date) ==
    SelectSeq(rows, LAMBDA r : /\ "Date" \in DOMAIN r
                               /\ start_date <= r.Date
                               /\ r.Date <= end_date)

\* MARKET_INDICES, two of its five entries, in the order of the dict.
MARKET_INDICES ==
    <<[name |-> "VIX", symbol |-> "^VIX"], [name |-> "S&P 500", symbol |-> "^GSPC"]>>

\* The downloads fetch_index_data has made when its loop is at entry n.
IndexCallsUpTo(n) == {<<"index", MARKET_INDICES[k].symbol>> : k \in 1..n}

IndexCalls == IndexCallsUpTo(Len(MARKET_INDICES))

\* The column type to_sql gives Sentiment when it creates stock_news from a
\* frame: TEXT for the object columns of the frame of line 67, FLOAT for a
\* frame with rows; the frame of line 64 without rows has a float64 or an
\* object Sentiment column, depending on the pandas release.
SentimentIsText(sent_df, failed) ==
    IF failed THEN {TRUE}
    ELSE IF sent_df = << >> THEN BOOLEAN
    ELSE {FALSE}

\* A value stored in a TEXT column is read back as a str.
Str(v) == [str |-> v]

\* pd.read_sql("SELECT * FROM stock_news").
ReadNews(rows, text) ==
    [k \in DOMAIN rows |->
        [Ticker |-> rows[k].Ticker, Headline |-> rows[k].Headline,
         Sentiment |-> IF text THEN Str(rows[k].Sentiment) ELSE rows[k].Sentiment]]

-----------------------------------------------------------------------------
(* Spec: the page run *)

NoFrame == << >>
NoMap == [t \in {} |-> 0]

\* pd.DataFrame(): no column, no row.
EmptyFrame == [cols |-> {}, data |-> NoMap]

IdleNorm ==
    /\ raw_index = NoMap
    /\ index_df = EmptyFrame
    /\ sentiment_series = EmptyFrame
    /\ combined_df = EmptyFrame
    /\ normalized_df = EmptyFrame

IdleCat == score = 0 /\ category = "none"

BeginRun(stocks, start, end) ==
    /\ STOCKS' = stocks
    /\ START_DATE' = start
    /\ END_DATE' = end
    /\ i' = 1
    /\ all_data' = << >>
    /\ all_sentiment' = << >>
    /\ stock_prices' = NoFrame
    /\ stock_news' = NoFrame
    /\ avg_sentiment' = NoMap
    /\ calls' = {}
    /\ written' = 0
    /\ ui' = "none"

\* The store file is missing (no table yet), or it holds the two tables,
\* empty, stock_news created with a Date column and a FLOAT Sentiment.
Init ==
    /\ pc = "ingest"
    /\ STOCKS \in Selections
    /\ START_DATE \in DateSet
    /\ END_DATE \in DateSet
    /\ dated \in BOOLEAN
    /\ db = IF dated
            THEN ("stock_prices" :> << >>) @@ ("stock_news" :> << >>)
            ELSE NoMap
    /\ news_text = FALSE
    /\ i = 1
    /\ all_data = << >>
    /\ all_sentiment = << >>
    /\ stock_prices = NoFrame
    /\ stock_news = NoFrame
    /\ avg_sentiment = NoMap
    /\ calls = {}
    /\ written = 0
    /\ ui = "none"
    /\ IdleNorm
    /\ IdleCat

RECURSIVE SumLen(_, _)
SumLen(store, names) ==
    IF names = {} THEN 0
    ELSE LET n == CHOOSE x \in names : TRUE
         IN  Len(store[n]) + SumLen(store, names \ {n})

\* The rows the store holds.
StoreSize(store) == SumLen(store, DOMAIN store)

\* One pass of the loop body (lines 99-105) in which both provider calls
\* return or the news call fails.
IngestBody(data, articles, failed) ==
    LET stock == STOCKS[i]
        df == fetch_stock_data(stock, data)
        sent_df == fetch_real_news(stock, articles, failed)
    IN  /\ db' = store_to_db(store_to_db(db, df, "stock_prices"),
                             sent_df, "stock_news")
        /\ StoreSize(db') <= MaxRows
        /\ IF "stock_news" \in DOMAIN db
           THEN news_text' = news_text
           ELSE news_text' \in SentimentIsText(sent_df, failed)
        /\ calls' = calls \cup {<<"price", stock>>, <<"news", stock>>}
        /\ written' = written + Len(df) + Len(sent_df)
        /\ i' = i + 1
        /\ all_data' = Append(all_data, df)
        /\ all_sentiment' = Append(all_sentiment, sent_df)

\* Lines 98-105, one ticker.
IngestStock ==
    /\ pc = "ingest"
    /\ i <= Len(STOCKS)
    /\ \E data \in PriceHistories(START_DATE, END_DATE), news \in NewsOutcomes :
          IngestBody(data, news.articles, news.failed)
    /\ UNCHANGED <<pc, START_DATE, END_DATE, STOCKS, dated, stock_prices,
                   stock_news, avg_sentiment, ui>>
    /\ UNCHANGED <<normVars, catVars>>

\* Line 99 when yf.download raises: fetch_stock_data has no handler, the
\* exception ends the run.
IngestPriceRaises ==
    /\ pc = "ingest"
    /\ i <= Len(STOCKS)
    /\ calls' = calls \cup {<<"price", STOCKS[i]>>}
    /\ pc' = "crashed"
    /\ UNCHANGED <<START_DATE, END_DATE, STOCKS, dated, db, news_text, i, all_data,
                   all_sentiment, stock_prices, stock_news, avg_sentiment,
                   written, ui>>
    /\ UNCHANGED <<normVars, catVars>>

\* Lines 108-109 when a table does not exist: read_sql raises.
LoadRaises ==
    /\ pc = "ingest"
    /\ i > Len(STOCKS)
    /\ ~({"stock_prices", "stock_news"} \subseteq DOMAIN db)
    /\ pc' = "crashed"
    /\ UNCHANGED <<START_DATE, END_DATE, STOCKS, dated, db, news_text, i, all_data,
                   all_sentiment, stock_prices, stock_news, avg_sentiment,
                   calls, written, ui>>
    /\ UNCHANGED <<normVars, catVars>>

\* Lines 108-140 when the stored sentiments are text: the frames are read,
\* the first sections display them, and mean() of line 140 raises on the str
\* values.
AverageRaises ==
    /\ pc = "ingest"
    /\ i > Len(STOCKS)
    /\ {"stock_prices", "stock_news"} \subseteq DOMAIN db
    /\ news_text /\ db["stock_news"] /= << >>
    /\ stock_prices' = db["stock_prices"]
    /\ stock_news' = ReadNews(db["stock_news"], news_text)
    /\ pc' = "crashed"
    /\ UNCHANGED <<START_DATE, END_DATE, STOCKS, dated, db, news_text, i, all_data,
                   all_sentiment, avg_sentiment, calls, written, ui>>
    /\ UNCHANGED <<normVars, catVars>>

\* Lines 108-173: the frames are read; the chart sections only display,
\* line 140 computes avg_sentiment.
LoadData ==
    /\ pc = "ingest"
    /\ i > Len(STOCKS)
    /\ {"stock_prices", "stock_news"} \subseteq DOMAIN db
    /\ ~(news_text /\ db["stock_news"] /= << >>)
    /\ stock_prices' = db["stock_prices"]
    /\ stock_news' = ReadNews(db["stock_news"], news_text)
    /\ avg_sentiment' = GroupMean(stock_news')
    /\ pc' = "charted"
    /\ UNCHANGED <<START_DATE, END_DATE, STOCKS, dated, db, news_text, i, all_data,
                   all_sentiment, calls, written, ui>>
    /\ UNCHANGED <<normVars, catVars>>

\* Line 179 when yf.download raises for an index: fetch_index_data has no
\* handler, the exception ends the run at the entry the loop is at.
CompareIndexRaises ==
    /\ pc = "charted"
    /\ \E n \in DOMAIN MARKET_INDICES : calls' = calls \cup IndexCallsUpTo(n)
    /\ pc' = "crashed"
    /\ UNCHANGED <<START_DATE, END_DATE, STOCKS, dated, db, news_text, i, all_data,
                   all_sentiment, stock_prices, stock_news, avg_sentiment,
                   written, ui>>
    /\ UNCHANGED <<normVars, catVars>>

\* Lines 179-213 of a page run.  Line 179 downloads every market index.  The
\* query of line 180 names the column Date: it raises on a table without
\* it.  With the column, the rows this script stored have a NULL Date, the
\* series is empty and line 194 reports it.  Lines 197-204 define and
\* register job; nothing runs it.
CompareSentiment ==
    /\ pc = "charted"
    /\ calls' = calls \cup IndexCalls
    /\ IF ~dated
       THEN pc' = "crashed" /\ UNCHANGED ui
       ELSE /\ DatedRows(db["stock_news"], START_DATE, END_DATE) = << >>
            /\ ui' = "info"
            /\ pc' = "done"
    /\ UNCHANGED <<START_DATE, END_DATE, STOCKS, dated, db, news_text, i, all_data,
                   all_sentiment, stock_prices, stock_news, avg_sentiment,
                   written>>
    /\ UNCHANGED <<normVars, catVars>>

\* A reload, or a change of one sidebar widget, runs the script again from
\* the top with the other widgets as they were.
Rerun ==
    /\ pc \in {"done", "crashed"}
    /\ \E stocks \in Selections, start \in DateSet, end \in DateSet :
          /\ \/ start = START_DATE /\ end = END_DATE
             \/ stocks = STOCKS /\ end = END_DATE
             \/ stocks = STOCKS /\ start = START_DATE
          /\ BeginRun(stocks, start, end)
    /\ pc' = "ingest"
    /\ UNCHANGED <<dated, db, news_text>>
    /\ UNCHANGED <<normVars, catVars>>

Next ==
    \/ IngestStock
    \/ IngestPriceRaises
    \/ LoadRaises
    \/ AverageRaises
    \/ LoadData
    \/ CompareIndexRaises
    \/ CompareSentiment
    \/ Rerun

Spec == Init /\ [][Next]_vars

-----------------------------------------------------------------------------
(* SpecNorm: the comparative section, lines 70-77 and 179-194 *)

\* A data frame indexed by date is [cols, data]: data maps each date of the
\* index to a row, a function from the columns to cells.  A cell is a number
\* or NaN.
NaN == [nan |-> TRUE, v |-> 0]
Num(x) == [nan |-> FALSE, v |-> x]

IsEmpty(frame) == DOMAIN frame.data = {} \/ frame.cols = {}

NormDates == 1..MaxNormDate
IndexNames == {MARKET_INDICES[k].name : k \in DOMAIN MARKET_INDICES}
IndexSymbols == {MARKET_INDICES[k].symbol : k \in DOMAIN MARKET_INDICES}

\* What yf.download(symbol, start, end)[['Close']] can return: a close for
\* some of the days.
CloseSeries == UNION {[D -> 1..MaxClose] : D \in SUBSET NormDates}

\* What the query of line 180 can return: a mean sentiment, in hundredths,
\* for some of the days.
SentimentMeans == {-20, 0, 20}
SentimentResults == UNION {[D -> SentimentMeans] : D \in SUBSET NormDates}

\* pd.concat([index_df, df], axis=1) with df renamed to `name`: the union of
\* the two date indexes, NaN where a side has no row for the date.
ConcatColumn(frame, name, series) ==
    LET dates == DOMAIN frame.data \cup DOMAIN series
        cols == frame.cols \cup {name}
    IN  [cols |-> cols,
         data |-> [d \in dates |->
                    [c \in cols |->
                       IF c = name
                       THEN IF d \in DOMAIN series THEN Num(series[d]) ELSE NaN
                       ELSE IF d \in DOMAIN frame.data THEN frame.data[d][c]
                            ELSE NaN]]]

\* No dropna: the rows with a NaN stay.
KeepNa(frame) == frame

\* dropna(inplace=True): the rows without a NaN.
DropNa(frame) ==
    LET kept == {d \in DOMAIN frame.data : \A c \in frame.cols : ~frame.data[d][c].nan}
    IN  [cols |-> frame.cols, data |-> [d \in kept |-> frame.data[d]]]

RECURSIVE ConcatAll(_, _, _)
ConcatAll(frame, names, raw) ==
    IF names = << >> THEN frame
    ELSE ConcatAll(ConcatColumn(frame, Head(names).name, raw[Head(names).symbol]),
                   Tail(names), raw)

\* fetch_index_data: one column per index, then dropna.
fetch_index_data(symbol_dict, raw) ==
    DropNa(ConcatAll(EmptyFrame, symbol_dict, raw))

\* The frame fetch_sentiment_series_from_db builds from the query result.
SentimentFrame(result) ==
    [cols |-> {"Sentiment"},
     data |-> [d \in DOMAIN result |-> [c \in {"Sentiment"} |-> Num(result[d])]]]

\* pd.merge(left, right, left_index=True, right_index=True, how='inner').
MergeInner(left, right) ==
    LET dates == DOMAIN left.data \cap DOMAIN right.data
        cols == left.cols \cup right.cols
    IN  [cols |-> cols,
         data |-> [d \in dates |->
                    [c \in cols |->
                       IF c \in left.cols THEN left.data[d][c]
                       ELSE right.data[d][c]]]]

ColumnValues(frame, c) ==
    {frame.data[d][c].v : d \in {e \in DOMAIN frame.data : ~frame.data[e][c].nan}}

ColMin(frame, c) ==
    CHOOSE x \in ColumnValues(frame, c) : \A y \in ColumnValues(frame, c) : x <= y
ColMax(frame, c) ==
    CHOOSE x \in ColumnValues(frame, c) : \A y \in ColumnValues(frame, c) : x >= y

\* A normalized cell is the fraction num/den, or NaN.
NormNaN == [nan |-> TRUE, num |-> 0, den |-> 0]

\* Scaling by the maximum alone.
ScaleByMax(v, lo, hi) ==
    IF hi = 0 THEN NormNaN ELSE [nan |-> FALSE, num |-> v - lo, den |-> hi]

\* (v - min) / (max - min) in floating point: 0.0/0.0 is NaN, without an
\* exception.  v lies in [min, max], so the numerator is 0 when they are equal.
Scale(v, lo, hi) ==
    IF hi - lo = 0 THEN NormNaN ELSE [nan |-> FALSE, num |-> v - lo, den |-> hi - lo]

\* Lines 185-187: min() and max() skip NaN; a NaN cell stays NaN.
Normalize(frame) ==
    [cols |-> frame.cols,
     data |-> [d \in DOMAIN frame.data |->
                [c \in frame.cols |->
                   IF frame.data[d][c].nan THEN NormNaN
                   ELSE Scale(frame.data[d][c].v, ColMin(frame, c), ColMax(frame, c))]]]

IdlePipe ==
    /\ START_DATE = 1
    /\ END_DATE = 1
    /\ STOCKS = << >>
    /\ dated = TRUE
    /\ db = NoMap
    /\ news_text = FALSE
    /\ i = 1
    /\ all_data = << >>
    /\ all_sentiment = << >>
    /\ stock_prices = NoFrame
    /\ stock_news = NoFrame
    /\ avg_sentiment = NoMap
    /\ calls = {}
    /\ written = 0

InitNorm ==
    /\ pc = "index"
    /\ raw_index \in [IndexSymbols -> CloseSeries]
    /\ index_df = EmptyFrame
    /\ sentiment_series = EmptyFrame
    /\ combined_df = EmptyFrame
    /\ normalized_df = EmptyFrame
    /\ ui = "none"
    /\ IdlePipe
    /\ IdleCat

\* Line 179.
FetchIndex ==
    /\ pc = "index"
    /\ index_df' = fetch_index_data(MARKET_INDICES, raw_index)
    /\ pc' = "sentiment"
    /\ UNCHANGED <<raw_index, sentiment_series, combined_df, normalized_df, ui>>
    /\ UNCHANGED <<pipeVars, catVars>>

\* Line 179 when yf.download raises for an index: the exception ends the run.
FetchIndexRaises ==
    /\ pc = "index"
    /\ pc' = "crashed"
    /\ UNCHANGED <<normVars, ui>>
    /\ UNCHANGED <<pipeVars, catVars>>

\* Line 180.
FetchSentimentSeries ==
    /\ pc = "sentiment"
    /\ \E result \in SentimentResults :
          sentiment_series' = SentimentFrame(result)
    /\ pc' = "branch"
    /\ UNCHANGED <<raw_index, index_df, combined_df, normalized_df, ui>>
    /\ UNCHANGED <<pipeVars, catVars>>

\* Lines 183-184: both frames hold rows, they are merged.
Merge ==
    /\ pc = "branch"
    /\ ~IsEmpty(sentiment_series) /\ ~IsEmpty(index_df)
    /\ combined_df' = MergeInner(index_df, sentiment_series)
    /\ pc' = "merged"
    /\ UNCHANGED <<raw_index, index_df, sentiment_series, normalized_df, ui>>
    /\ UNCHANGED <<pipeVars, catVars>>

\* Lines 185-192: every column is scaled and the frame is plotted.
NormalizeAndPlot ==
    /\ pc = "merged"
    /\ normalized_df' = Normalize(combined_df)
    /\ ui' = "plot"
    /\ pc' = "plotted"
    /\ UNCHANGED <<raw_index, index_df, sentiment_series, combined_df>>
    /\ UNCHANGED <<pipeVars, catVars>>

\* Lines 193-194.
NotEnoughData ==
    /\ pc = "branch"
    /\ IsEmpty(sentiment_series) \/ IsEmpty(index_df)
    /\ ui' = "info"
    /\ pc' = "reported"
    /\ UNCHANGED normVars
    /\ UNCHANGED <<pipeVars, catVars>>

NextNorm ==
    \/ FetchIndex
    \/ FetchIndexRaises
    \/ FetchSentimentSeries
    \/ Merge
    \/ NormalizeAndPlot
    \/ NotEnoughData

SpecNorm == InitNorm /\ [][NextNorm]_vars

-----------------------------------------------------------------------------
(* SpecCat: categorize, lines 153-159, as line 163 applies it to a row *)

\* The thresholds taken inclusive.
categorize_inclusive(p) ==
    IF p >= Threshold THEN "Positive"
    ELSE IF p <= -Threshold THEN "Negative"
    ELSE "Neutral"

categorize(p) ==
    IF p > Threshold THEN "Positive"
    ELSE IF p < -Threshold THEN "Negative"
    ELSE "Neutral"

Scores == (-MaxScore)..MaxScore

InitCat ==
    /\ pc = "apply"
    /\ score \in Scores
    /\ category = "none"
    /\ ui = "none"
    /\ IdlePipe
    /\ IdleNorm

\* Line 163, one row.
Categorize ==
    /\ pc = "apply"
    /\ category' = categorize(score)
    /\ pc' = "applied"
    /\ UNCHANGED <<score, ui>>
    /\ UNCHANGED <<pipeVars, normVars>>

\* apply moves to the next row.
NextRow ==
    /\ pc = "applied"
    /\ \E p \in Scores : score' = p
    /\ category' = "none"
    /\ pc' = "apply"
    /\ UNCHANGED ui
    /\ UNCHANGED <<pipeVars, normVars>>

NextCat == Categorize \/ NextRow

SpecCat == InitCat /\ [][NextCat]_vars

-----------------------------------------------------------------------------
(* Claims checked under Spec *)

LoopEnded == pc /= "ingest"

NewsRows == IF "stock_news" \in DOMAIN db THEN db["stock_news"] ELSE << >>
PriceRows == IF "stock_prices" \in DOMAIN db THEN db["stock_prices"] ELSE << >>

\* C1: when END_DATE is earlier than START_DATE the run is rejected before
\* any provider call: no price, news or index fetch is made and no row is
\* written in that run.
C1_RejectedBeforeProviderCall ==
    END_DATE < START_DATE => calls = {} /\ written = 0

\* C2: a provider failure for one ticker is never fatal: once the ingestion
\* loop has ended, every selected ticker has had its price fetch and its
\* news fetch.
C2_LoopReachesEveryTicker ==
    LoopEnded =>
        \A k \in DOMAIN STOCKS :
            {<<"price", STOCKS[k]>>, <<"news", STOCKS[k]>>} \subseteq calls

\* C7 as stated: a ticker whose news fetch returned zero articles in this
\* run has no entry in the average-sentiment result.
C7_ZeroArticlesAbsent ==
    pc = "charted" =>
        \A k \in DOMAIN all_sentiment :
            all_sentiment[k] = << >> => STOCKS[k] \notin DOMAIN avg_sentiment

RECURSIVE SumDeviation(_, _)
SumDeviation(rows, m) ==
    IF rows = << >> THEN 0
    ELSE (Head(rows).Sentiment * m.den - m.num) + SumDeviation(Tail(rows), m)

\* The stored rows of the news table and the average-sentiment mapping, in
\* every state of a run, a run that line 140 ends with an exception included
\* (it leaves no mapping): a ticker without a stored stock_news row has no
\* entry, and every entry is the arithmetic mean of the ticker's stored
\* sentiments (the deviations from it sum to zero).
AbsentWithoutStoredRow ==
    \A t \in Tickers :
        /\ RowsOf(NewsRows, t) = << >> => t \notin DOMAIN avg_sentiment
        /\ t \in DOMAIN avg_sentiment =>
              /\ avg_sentiment[t].den > 0
              /\ SumDeviation(RowsOf(NewsRows, t), avg_sentiment[t]) = 0

\* A pass of the ingestion loop whose headline frame is empty leaves the
\* stored stock_news rows as they were before the pass.
EmptyFrameAddsNoRow ==
    (/\ Len(all_sentiment') = Len(all_sentiment) + 1
     /\ all_sentiment'[Len(all_sentiment')] = << >>)
        => (IF "stock_news" \in DOMAIN db' THEN db'["stock_news"] ELSE << >>)
               = NewsRows

\* C7 amended: a ticker with zero articles has an empty headline frame, whose
\* ingestion leaves the stored stock_news rows unchanged; a ticker for which
\* the stored stock_news table holds no row has no entry in the
\* average-sentiment result (absent, not 0), and every ticker that has an
\* entry maps to the arithmetic mean of its stored sentiments.
C7_AbsentWithoutStoredRow ==
    []AbsentWithoutStoredRow /\ [][EmptyFrameAddsNoRow]_vars

\* A selected ticker got zero articles and is absent, while another ticker's
\* entry is the mean of two stored rows.
C7_Witness ==
    /\ pc = "charted"
    /\ \E k \in DOMAIN STOCKS :
          all_sentiment[k] = << >> /\ STOCKS[k] \notin DOMAIN avg_sentiment
    /\ \E t \in DOMAIN avg_sentiment : avg_sentiment[t].den = 2

\* C8: the stored price table holds at most one row per (ticker, date).
C8_UniqueTickerDate ==
    \A a, b \in DOMAIN PriceRows :
        (PriceRows[a].Ticker = PriceRows[b].Ticker
            /\ PriceRows[a].Date = PriceRows[b].Date) => a = b

IsPrefix(s, t) == Len(s) <= Len(t) /\ SubSeq(t, 1, Len(s)) = s

\* C10: the store is append-only: every step keeps each table and keeps the
\* rows it held, in place and unchanged, so no row count decreases.
C10_AppendOnly ==
    [][\A t \in DOMAIN db : t \in DOMAIN db' /\ IsPrefix(db[t], db'[t])]_vars

\* A run has appended rows to a store that already held rows.
C10_Witness ==
    written > 0 /\ StoreSize(db) > written

-----------------------------------------------------------------------------
(* Claims checked under SpecNorm *)

Normalized == pc = "plotted"

IsConstant(frame, c) == Cardinality(ColumnValues(frame, c)) = 1

\* C3: a column that is constant over the surviving dates normalizes to one
\* defined value in every row, never to an undefined value.
C3_ConstantColumnDefined ==
    Normalized =>
        \A c \in combined_df.cols :
            IsConstant(combined_df, c) =>
                \A d \in DOMAIN normalized_df.data : ~normalized_df.data[d][c].nan

SectionEnded == pc \in {"plotted", "reported"}

\* C4: when the index table and the sentiment series both hold rows but
\* share no date, the section reports that there is nothing to compare and
\* plots no normalized table.
C4_NoComparableDataReported ==
    (/\ SectionEnded
     /\ ~IsEmpty(index_df) /\ ~IsEmpty(sentiment_series)
     /\ DOMAIN index_df.data \cap DOMAIN sentiment_series.data = {}) => ui = "info"

\* C5: in a column with at least two distinct values every normalized value
\* lies in [0,1], a row holding the minimum maps to 0 and a row holding the
\* maximum maps to 1.
C5_NormalizedRange ==
    Normalized =>
        \A c \in combined_df.cols :
            Cardinality(ColumnValues(combined_df, c)) >= 2 =>
                \A d \in DOMAIN combined_df.data :
                    LET n == normalized_df.data[d][c]
                        v == combined_df.data[d][c].v
                    IN  /\ ~n.nan
                        /\ n.den > 0
                        /\ 0 <= n.num /\ n.num <= n.den
                        /\ (\A e \in DOMAIN combined_df.data :
                               v <= combined_df.data[e][c].v) => n.num = 0
                        /\ (\A e \in DOMAIN combined_df.data :
                               v >= combined_df.data[e][c].v) => n.num = n.den

\* A plotted table with a column of two distinct values, scaled to 0 and 1.
C5_Witness ==
    /\ Normalized
    /\ \E c \in combined_df.cols :
          /\ Cardinality(ColumnValues(combined_df, c)) >= 2
          /\ \E d, e \in DOMAIN normalized_df.data :
                /\ normalized_df.data[d][c].num = 0
                /\ normalized_df.data[e][c].num = normalized_df.data[e][c].den

CommonDates ==
    {d \in NormDates :
        /\ \A n \in IndexSymbols : d \in DOMAIN raw_index[n]
        /\ d \in DOMAIN sentiment_series.data}

\* C9: the joined table holds exactly the dates present in every index
\* series and in the sentiment series.
C9_JoinKeepsCommonDates ==
    pc \in {"merged", "plotted"} => DOMAIN combined_df.data = CommonDates

\* A joined table that keeps a date and leaves out a date that one series
\* has and another lacks.
C9_Witness ==
    /\ pc = "merged"
    /\ DOMAIN combined_df.data /= {}
    /\ \E d \in NormDates \ DOMAIN combined_df.data :
          \E n \in IndexSymbols : d \in DOMAIN raw_index[n]

-----------------------------------------------------------------------------
(* Claims checked under SpecCat *)

\* C6: categorize returns exactly one of Positive, Negative, Neutral for
\* every score in [-1,1]: Positive exactly above 0.1, Negative exactly below
\* -0.1, Neutral otherwise, so 0.1 and -0.1 are Neutral.
C6_CategorizeThresholds ==
    pc = "applied" =>
        /\ category \in {"Positive", "Negative", "Neutral"}
        /\ category = "Positive" <=> score > 10
        /\ category = "Negative" <=> score < -10
        /\ category = "Neutral" <=> (-10 <= score /\ score <= 10)

\* The score 0.1 has been categorized.
C6_Witness ==
    pc = "applied" /\ score = 10 /\ category = "Neutral"

=============================================================================
